---- MODULE Spec2Model ----
(***************************************************************************)
(* Session registries of the FileCommander MCP server (src/src/index.ts):  *)
(* the process-session registry (fc_start_session, fc_read_output,         *)
(* fc_send_input, fc_list_sessions, fc_close_session and the child-process *)
(* event handlers) and the search-session registry (fc_start_search,       *)
(* fc_get_search_results, fc_stop_search, fc_list_searches,                *)
(* fc_clear_search and the background traversal asyncSearchFiles).         *)
(*                                                                         *)
(* Node runs every handler and every event callback to completion on one   *)
(* event loop, so each handler and each callback is one action. The only   *)
(* await inside a modelled handler is fc_start_search's pathExists, which  *)
(* comes before the handler reads or writes any state: the action is the   *)
(* handler from that point on.                                             *)
(***************************************************************************)
EXTENDS Integers, Sequences, FiniteSets, TLC

\* ------------------------------------------------------------------ bounds
\* Sessions a behaviour may start per registry.
MaxSessions == 1
\* Chunks the child processes emit, all together, in the short specifications.
MaxChunks == 3
\* Inputs the child processes receive, all together.
MaxWrites == 1
\* Date.now() is drawn from 0 .. MaxClock.
MaxClock == 0
\* Searches a behaviour may start.
MaxSearches == 2
\* fc_get_search_results is called with offset 0 .. MaxOffset and limit
\* 1 .. MaxLimit.
MaxOffset == 1
MaxLimit == 2
\* Sessions a behaviour may start per registry in the specification of the
\* two registries together.
MaxStarts == 2
\* Chunks the child process emits in the long-transcript specification.
MaxBurst == 1501
\* The long-transcript specification explores the events other than stdout
\* data (stderr data, close, error, reads) while the transcript holds
\* NearCap .. NearCap + CapWindow chunks, and reads again at the end.
NearCap == 999
CapWindow == 2
MaxPatternLen == 2
MaxNameLen == 3

\* ------------------------------------------------------ program constants
\* if (session.output.length > 1000)
OutputCap == 1000
\* session.output = session.output.slice(-500)
OutputKeep == 500

VARIABLES
    sessionCounter,     \* let sessionCounter = 0
    processSessions,    \* Map keys of processSessions, in insertion order
    psession,           \* the ProcessSession objects ever created, by id
                        \* (an object outlives its Map entry: the event
                        \* handlers hold it in their closure)
    proc,               \* the child process of each session, as the OS and
                        \* Node's ChildProcess see it
    ghost,              \* history per session: chunks handed out by clearing
                        \* reads, chunks dropped by the cap
    searchCounter,      \* let searchCounter = 0
    searchSessions,     \* Map keys of searchSessions, in insertion order
    ssession,           \* the SearchSession objects ever created, by id (the
                        \* traversal holds its object whatever the Map does)
    task,               \* the background traversal of each search: the
                        \* suspended asyncSearchFiles calls and the readdir
                        \* the innermost one awaits
    sghost,             \* history per search: what stop saw when it returned
    last                \* the handler that ran last, and its reply

procVars == <<sessionCounter, processSessions, psession, proc, ghost>>
searchVars == <<searchCounter, searchSessions, ssession, task, sghost>>
vars == <<procVars, searchVars, last>>

\* ----------------------------------------------------------------- helpers
Range(s) == {s[i] : i \in 1 .. Len(s)}

\* slice(0, k): the first k elements.
SliceFirst(s, k) == IF Len(s) <= k THEN s ELSE SubSeq(s, 1, k)

\* slice(-k) off by one: one element too many.
SliceLastOffByOne(s, k) ==
    IF Len(s) <= k + 1 THEN s ELSE SubSeq(s, Len(s) - k, Len(s))

\* Array.prototype.slice(-k): the last k elements.
SliceLast(s, k) ==
    IF Len(s) <= k THEN s ELSE SubSeq(s, Len(s) - k + 1, Len(s))

\* Map.prototype.delete on the key sequence.
RECURSIVE MapDelete(_, _)
MapDelete(keys, id) ==
    IF keys = <<>> THEN <<>>
    ELSE IF Head(keys) = id THEN MapDelete(Tail(keys), id)
    ELSE <<Head(keys)>> \o MapDelete(Tail(keys), id)

Timestamps == 0 .. MaxClock
Commands == {"sh"}
Inputs == {<<"a">>}
ExitCodes == {0, 1}

\* An id made of the timestamp alone.
generateSessionIdByClock(counter, now) == <<"session", 0, now>>

\* `session_${++sessionCounter}_${Date.now()}`
generateSessionId(counter, now) == <<"session", counter, now>>

\* An id no start ever returned (the counter part of an issued id is >= 1).
BogusSession == <<"session", 0, 0>>

SessionIds == DOMAIN psession
SessionArgs == SessionIds \cup {BogusSession}

\* A transcript chunk: the literal text the handler puts around the payload,
\* and the payload (the number of the chunk the process emitted, or the exit
\* code).
Chunk(k, n) == [k |-> k, n |-> n]
StdoutChunk(n) == Chunk("", n)
StderrChunk(n) == Chunk("[stderr] ", n)
ExitChunk(code) == Chunk("[Prozess beendet mit Code]", code)
ErrorChunk == Chunk("[Fehler]", 0)
IsTerminal(c) == c.k \in {"[Prozess beendet mit Code]", "[Fehler]"}

\* session.output.join(''): the texts of the chunks, in order.
Join(output) == output

\* `last` after a handler: the tool, its session id argument, its boolean
\* argument (clear, newline, force), the kind of reply, and the reply's
\* payload. An event callback replies to nobody.
Reply(op, id, arg, res) ==
    [op |-> op, id |-> id, arg |-> arg, res |-> res,
     out |-> <<>>,      \* fc_read_output: the transcript text
     text |-> <<>>,     \* fc_send_input: the input echoed
     rows |-> <<>>,     \* fc_list_sessions, fc_list_searches: the table
     offset |-> 0,      \* fc_get_search_results: the offset asked for
     limit |-> 0,       \* fc_get_search_results: the limit asked for
     page |-> <<>>,     \* fc_get_search_results: the page of results
     total |-> 0,       \* result count reported
     scanned |-> 0,     \* fc_get_search_results: scanned directories
     more |-> FALSE,    \* fc_get_search_results: hasMore
     running |-> FALSE] \* the status shown
NoReply == Reply("event", BogusSession, FALSE, "ok")

\* -------------------------------------------------------------------- init
Init ==
    /\ sessionCounter = 0
    /\ processSessions = <<>>
    /\ psession = <<>>
    /\ proc = <<>>
    /\ ghost = <<>>
    /\ searchCounter = 0
    /\ searchSessions = <<>>
    /\ ssession = <<>>
    /\ task = <<>>
    /\ sghost = <<>>
    /\ last = NoReply

\* ------------------------------------------------- process session handlers
\* const session: ProcessSession = { ..., output: [], isRunning: true }
NewSession(id, command) ==
    [id |-> id, command |-> command, output |-> <<>>, isRunning |-> TRUE]

\* spawn(command, args, { stdio: ['pipe', 'pipe', 'pipe'] })
NewProcess ==
    [alive |-> TRUE, closed |-> FALSE, errored |-> FALSE, emitted |-> 0,
     signals |-> <<>>, stdin |-> <<>>]

NewHistory == [cleared |-> <<>>, evicted |-> <<>>]

\* fc_start_session: spawn succeeded.
StartSession(command, now) ==
    LET id == generateSessionId(sessionCounter + 1, now) IN
    /\ sessionCounter' = sessionCounter + 1
    /\ psession' = psession @@ (id :> NewSession(id, command))
    /\ proc' = proc @@ (id :> NewProcess)
    /\ ghost' = ghost @@ (id :> NewHistory)
    /\ processSessions' = Append(processSessions, id)
    /\ last' = Reply("start", id, FALSE, "ok")
    /\ UNCHANGED searchVars

\* fc_start_session: spawn threw; the catch block replies with the error.
\* The id was generated before, so the counter has moved.
StartSessionThrows ==
    /\ sessionCounter' = sessionCounter + 1
    /\ last' = Reply("start", BogusSession, FALSE, "error")
    /\ UNCHANGED <<processSessions, psession, proc, ghost, searchVars>>

\* proc.stdout.on('data'): push, then cap.
StdoutData(id) ==
    LET n == proc[id].emitted + 1
        pushed == Append(psession[id].output, StdoutChunk(n))
        capped == IF Len(pushed) > OutputCap
                  THEN SliceLast(pushed, OutputKeep) ELSE pushed
    IN
    /\ id \in SessionIds
    /\ ~proc[id].closed
    /\ proc' = [proc EXCEPT ![id].emitted = n]
    /\ psession' = [psession EXCEPT ![id].output = capped]
    /\ ghost' = [ghost EXCEPT ![id].evicted =
                    @ \o SubSeq(pushed, 1, Len(pushed) - Len(capped))]
    /\ last' = NoReply
    /\ UNCHANGED <<sessionCounter, processSessions, searchVars>>

\* proc.stderr.on('data'): push only.
StderrData(id) ==
    LET n == proc[id].emitted + 1 IN
    /\ id \in SessionIds
    /\ ~proc[id].closed
    /\ proc' = [proc EXCEPT ![id].emitted = n]
    /\ psession' = [psession EXCEPT
                       ![id].output = Append(@, StderrChunk(n))]
    /\ last' = NoReply
    /\ UNCHANGED <<sessionCounter, processSessions, ghost, searchVars>>

\* A 'close' callback that also drops the session from the registry.
ProcCloseRemoves(id, code) ==
    /\ id \in SessionIds
    /\ ~proc[id].closed
    /\ proc' = [proc EXCEPT ![id].closed = TRUE, ![id].alive = FALSE]
    /\ psession' = [psession EXCEPT
                       ![id].isRunning = FALSE,
                       ![id].output = Append(@, ExitChunk(code))]
    /\ processSessions' = MapDelete(processSessions, id)
    /\ last' = NoReply
    /\ UNCHANGED <<sessionCounter, ghost, searchVars>>

\* A 'close' callback that puts the session back under its id.
ProcCloseReinserts(id, code) ==
    /\ id \in SessionIds
    /\ ~proc[id].closed
    /\ proc' = [proc EXCEPT ![id].closed = TRUE, ![id].alive = FALSE]
    /\ psession' = [psession EXCEPT
                       ![id].isRunning = FALSE,
                       ![id].output = Append(@, ExitChunk(code))]
    /\ processSessions' = IF id \in Range(processSessions) THEN processSessions
                          ELSE Append(processSessions, id)
    /\ last' = NoReply
    /\ UNCHANGED <<sessionCounter, ghost, searchVars>>

\* proc.on('close', code): the process has ended and its streams are closed.
ProcClose(id, code) ==
    /\ id \in SessionIds
    /\ ~proc[id].closed
    /\ proc' = [proc EXCEPT ![id].closed = TRUE, ![id].alive = FALSE]
    /\ psession' = [psession EXCEPT
                       ![id].isRunning = FALSE,
                       ![id].output = Append(@, ExitChunk(code))]
    /\ last' = NoReply
    /\ UNCHANGED <<sessionCounter, processSessions, ghost, searchVars>>

\* The child process ends in the operating system. No callback is
\* registered for 'exit' (only for 'close' and 'error'), so nothing of the
\* session changes until Node delivers 'close' in a later turn of the
\* event loop.
ProcExit(id) ==
    /\ id \in SessionIds
    /\ proc[id].alive
    /\ ~proc[id].closed
    /\ proc' = [proc EXCEPT ![id].alive = FALSE]
    /\ last' = NoReply
    /\ UNCHANGED <<sessionCounter, processSessions, psession, ghost, searchVars>>

\* proc.on('error', err): the spawn failed (Node emits 'error' and, after
\* it, 'close').
ProcError(id) ==
    /\ id \in SessionIds
    /\ ~proc[id].errored
    /\ ~proc[id].closed
    /\ proc' = [proc EXCEPT ![id].errored = TRUE, ![id].alive = FALSE]
    /\ psession' = [psession EXCEPT
                       ![id].isRunning = FALSE,
                       ![id].output = Append(@, ErrorChunk)]
    /\ last' = NoReply
    /\ UNCHANGED <<sessionCounter, processSessions, ghost, searchVars>>

\* processSessions.get(id)
HasSession(id) == id \in Range(processSessions)

\* A read that never clears.
AfterReadKeeps(output, clear) == output

\* if (params.clear) { session.output = [] }
AfterRead(output, clear) == IF clear THEN <<>> ELSE output

\* fc_read_output
ReadOutput(id, clear) ==
    IF ~HasSession(id)
    THEN /\ last' = Reply("read", id, clear, "NotFound")
         /\ UNCHANGED <<procVars, searchVars>>
    ELSE /\ last' = [Reply("read", id, clear, "ok") EXCEPT
                        !.out = Join(psession[id].output),
                        !.running = psession[id].isRunning]
         /\ psession' = [psession EXCEPT
                            ![id].output = AfterRead(@, clear)]
         /\ ghost' = IF clear
                     THEN [ghost EXCEPT
                              ![id].cleared = @ \o psession[id].output]
                     ELSE ghost
         /\ UNCHANGED <<sessionCounter, processSessions, proc, searchVars>>

\* fc_send_input without the isRunning test.
SendInputUnguarded(id, input, newline) ==
    IF ~HasSession(id)
    THEN /\ last' = Reply("write", id, newline, "NotFound")
         /\ UNCHANGED <<procVars, searchVars>>
    ELSE LET inputText == IF newline THEN input \o <<"\n">> ELSE input IN
         /\ proc' = [proc EXCEPT ![id].stdin = Append(@, inputText)]
         /\ last' = [Reply("write", id, newline, "ok") EXCEPT !.text = input]
         /\ UNCHANGED <<sessionCounter, processSessions, psession, ghost, searchVars>>

\* A write that asks the operating system whether the child still lives.
SendInputChecksProcess(id, input, newline) ==
    IF ~HasSession(id)
    THEN /\ last' = Reply("write", id, newline, "NotFound")
         /\ UNCHANGED <<procVars, searchVars>>
    ELSE IF ~proc[id].alive
    THEN /\ last' = Reply("write", id, newline, "SessionEnded")
         /\ UNCHANGED <<procVars, searchVars>>
    ELSE LET inputText == IF newline THEN input \o <<"\n">> ELSE input IN
         /\ proc' = [proc EXCEPT ![id].stdin = Append(@, inputText)]
         /\ last' = [Reply("write", id, newline, "ok") EXCEPT !.text = input]
         /\ UNCHANGED <<sessionCounter, processSessions, psession, ghost, searchVars>>

\* fc_send_input. stdin.write of a string does not throw, so the catch block
\* is not reached.
SendInput(id, input, newline) ==
    IF ~HasSession(id)
    THEN /\ last' = Reply("write", id, newline, "NotFound")
         /\ UNCHANGED <<procVars, searchVars>>
    ELSE IF ~psession[id].isRunning
    THEN /\ last' = Reply("write", id, newline, "SessionEnded")
         /\ UNCHANGED <<procVars, searchVars>>
    ELSE LET inputText == IF newline THEN input \o <<"\n">> ELSE input IN
         /\ proc' = [proc EXCEPT ![id].stdin = Append(@, inputText)]
         /\ last' = [Reply("write", id, newline, "ok") EXCEPT !.text = input]
         /\ UNCHANGED <<sessionCounter, processSessions, psession, ghost, searchVars>>

\* The rows fc_list_sessions renders, in Map order.
SessionRows ==
    [i \in 1 .. Len(processSessions) |->
        [id |-> processSessions[i],
         command |-> psession[processSessions[i]].command,
         isRunning |-> psession[processSessions[i]].isRunning]]

\* fc_list_sessions
ListSessions ==
    /\ last' = [Reply("list", BogusSession, FALSE, "ok") EXCEPT !.rows = SessionRows]
    /\ UNCHANGED <<procVars, searchVars>>

\* fc_close_session that keeps the entry of a running session it did not
\* kill by force, until the process is gone.
CloseSessionWaits(id, force) ==
    IF ~HasSession(id)
    THEN /\ last' = Reply("close", id, force, "NotFound")
         /\ UNCHANGED <<procVars, searchVars>>
    ELSE /\ proc' = IF psession[id].isRunning
                    THEN [proc EXCEPT ![id].signals =
                            Append(@, IF force THEN "SIGKILL" ELSE "SIGTERM")]
                    ELSE proc
         /\ processSessions' = IF psession[id].isRunning /\ ~force
                               THEN processSessions
                               ELSE MapDelete(processSessions, id)
         /\ last' = Reply("close", id, force, "ok")
         /\ UNCHANGED <<sessionCounter, psession, ghost, searchVars>>

\* fc_close_session that signals the process whatever isRunning says.
CloseSessionAlwaysKills(id, force) ==
    IF ~HasSession(id)
    THEN /\ last' = Reply("close", id, force, "NotFound")
         /\ UNCHANGED <<procVars, searchVars>>
    ELSE /\ proc' = [proc EXCEPT ![id].signals =
                        Append(@, IF force THEN "SIGKILL" ELSE "SIGTERM")]
         /\ processSessions' = MapDelete(processSessions, id)
         /\ last' = Reply("close", id, force, "ok")
         /\ UNCHANGED <<sessionCounter, psession, ghost, searchVars>>

\* fc_close_session that takes an unknown id for done.
CloseSessionSilent(id, force) ==
    IF ~HasSession(id)
    THEN /\ last' = Reply("close", id, force, "ok")
         /\ UNCHANGED <<procVars, searchVars>>
    ELSE /\ proc' = IF psession[id].isRunning
                    THEN [proc EXCEPT ![id].signals =
                            Append(@, IF force THEN "SIGKILL" ELSE "SIGTERM")]
                    ELSE proc
         /\ processSessions' = MapDelete(processSessions, id)
         /\ last' = Reply("close", id, force, "ok")
         /\ UNCHANGED <<sessionCounter, psession, ghost, searchVars>>

\* A close that empties the whole registry.
CloseSessionAll(id, force) ==
    IF ~HasSession(id)
    THEN /\ last' = Reply("close", id, force, "NotFound")
         /\ UNCHANGED <<procVars, searchVars>>
    ELSE /\ proc' = IF psession[id].isRunning
                    THEN [proc EXCEPT ![id].signals =
                            Append(@, IF force THEN "SIGKILL" ELSE "SIGTERM")]
                    ELSE proc
         /\ processSessions' = <<>>
         /\ last' = Reply("close", id, force, "ok")
         /\ UNCHANGED <<sessionCounter, psession, ghost, searchVars>>

\* fc_close_session. kill with a valid signal name does not throw, so the
\* catch block is not reached.
CloseSession(id, force) ==
    IF ~HasSession(id)
    THEN /\ last' = Reply("close", id, force, "NotFound")
         /\ UNCHANGED <<procVars, searchVars>>
    ELSE /\ proc' = IF psession[id].isRunning
                    THEN [proc EXCEPT ![id].signals =
                            Append(@, IF force THEN "SIGKILL" ELSE "SIGTERM")]
                    ELSE proc
         /\ processSessions' = MapDelete(processSessions, id)
         /\ last' = Reply("close", id, force, "ok")
         /\ UNCHANGED <<sessionCounter, psession, ghost, searchVars>>

\* ------------------------------------------------------------ file system
\* The tree the searches walk. A path is the sequence of its segments; a
\* directory lists its entries in the order fs.readdir returns them.
File(name) == [name |-> name, isDir |-> FALSE]
Dir(name) == [name |-> name, isDir |-> TRUE]

Tree ==
    (<<"p">> :> <<File("a.ts"), Dir("sub"), Dir("node_modules"), File("b.js")>>)
    @@ (<<"p", "sub">> :> <<File("c.TS"), Dir("deep")>>)
    @@ (<<"p", "sub", "deep">> :> <<File("d.ts")>>)
    @@ (<<"p", "node_modules">> :> <<File("e.ts")>>)
    @@ (<<"q">> :> <<Dir("sub"), File("a.ts")>>)
    @@ (<<"q", "sub">> :> <<File("c.TS")>>)

Directories == DOMAIN Tree
Files ==
    UNION {{Append(d, Tree[d][i].name) :
               i \in {j \in 1 .. Len(Tree[d]) : ~Tree[d][j].isDir}} :
           d \in Directories}

\* The characters of each name and pattern.
Chars ==
    ("a.ts" :> <<"a", ".", "t", "s">>)
    @@ ("b.js" :> <<"b", ".", "j", "s">>)
    @@ ("c.TS" :> <<"c", ".", "T", "S">>)
    @@ ("d.ts" :> <<"d", ".", "t", "s">>)
    @@ ("e.ts" :> <<"e", ".", "t", "s">>)
    @@ ("*.ts" :> <<"*", ".", "t", "s">>)
    @@ ("?.ts" :> <<"?", ".", "t", "s">>)

\* The directory and pattern arguments fc_start_search is called with: the
\* root, the root written with a "." segment, a skip-listed directory, a
\* regular file, and a path that does not exist.
StartDirectories ==
    {<<"p">>, <<"p", ".">>, <<"p", "node_modules">>, <<"p", "b.js">>,
     <<"nope">>}
Patterns == {"*.ts"}

\* path.normalize: "." segments go, ".." takes the segment before it along.
RECURSIVE normalizePath(_)
normalizePath(inputPath) ==
    IF inputPath = <<>> THEN <<>>
    ELSE LET front == normalizePath(SubSeq(inputPath, 1, Len(inputPath) - 1))
             seg == inputPath[Len(inputPath)]
         IN IF seg = "." THEN front
            ELSE IF seg = ".." /\ front # <<>>
            THEN SubSeq(front, 1, Len(front) - 1)
            ELSE Append(front, seg)

\* fs.access succeeds on whatever exists, a file as well as a directory.
pathExists(targetPath) == targetPath \in Directories \cup Files

\* -------------------------------------------------------- pattern compiler
\* .replace(/[.+^${}()|[\]\\]/g, '\\$&')
RegexMeta == {".", "+", "^", "$", "{", "}", "(", ")", "|", "[", "]", "\\"}

RECURSIVE EscapeMeta(_)
EscapeMeta(cs) ==
    IF cs = <<>> THEN <<>>
    ELSE (IF Head(cs) \in RegexMeta THEN <<"\\", Head(cs)>> ELSE <<Head(cs)>>)
         \o EscapeMeta(Tail(cs))

\* .replace(/\*/g, '.*').replace(/\?/g, '.')
RECURSIVE ReplaceWildcards(_)
ReplaceWildcards(cs) ==
    IF cs = <<>> THEN <<>>
    ELSE (IF Head(cs) = "*" THEN <<".", "*">>
          ELSE IF Head(cs) = "?" THEN <<".">>
          ELSE <<Head(cs)>>)
         \o ReplaceWildcards(Tail(cs))

regexPattern(pattern) == ReplaceWildcards(EscapeMeta(pattern))

\* new RegExp(`^${regexPattern}$`, 'i'): the atoms between the anchors. A
\* backslash makes the next character a literal, "." is any character but a
\* line terminator, "*" repeats the atom before it.
Lit(c) == [t |-> "lit", c |-> c]
AnyChar == [t |-> "any", c |-> ""]
AnyStar == [t |-> "anystar", c |-> ""]

RECURSIVE ParseRegex(_)
ParseRegex(src) ==
    IF src = <<>> THEN <<>>
    ELSE IF Head(src) = "\\" /\ Len(src) >= 2
    THEN <<Lit(src[2])>> \o ParseRegex(SubSeq(src, 3, Len(src)))
    ELSE IF Head(src) = "." /\ Len(src) >= 2 /\ src[2] = "*"
    THEN <<AnyStar>> \o ParseRegex(SubSeq(src, 3, Len(src)))
    ELSE IF Head(src) = "."
    THEN <<AnyChar>> \o ParseRegex(Tail(src))
    ELSE <<Lit(Head(src))>> \o ParseRegex(Tail(src))

RegExp(pattern) == ParseRegex(regexPattern(pattern))

\* The 'i' flag compares characters by their upper case.
UpperCase == ("a" :> "A") @@ ("b" :> "B") @@ ("c" :> "C") @@ ("d" :> "D")
             @@ ("e" :> "E") @@ ("j" :> "J") @@ ("s" :> "S") @@ ("t" :> "T")
Canonicalize(c) == IF c \in DOMAIN UpperCase THEN UpperCase[c] ELSE c

LineTerminators == {"\n", "\r"}

\* RegExp.prototype.test on a whole name (the pattern is anchored).
RECURSIVE Test(_, _)
Test(regex, name) ==
    IF regex = <<>> THEN name = <<>>
    ELSE LET atom == Head(regex) IN
         IF atom.t = "lit"
         THEN /\ name # <<>>
              /\ Canonicalize(Head(name)) = Canonicalize(atom.c)
              /\ Test(Tail(regex), Tail(name))
         ELSE IF atom.t = "any"
         THEN /\ name # <<>>
              /\ Head(name) \notin LineTerminators
              /\ Test(Tail(regex), Tail(name))
         ELSE \/ Test(Tail(regex), name)
              \/ /\ name # <<>>
                 /\ Head(name) \notin LineTerminators
                 /\ Test(regex, Tail(name))

\* A traversal that skips nothing.
SkipNothing == {}

\* --------------------------------------------------------------- traversal
SkipList ==
    {"node_modules", ".git", "$RECYCLE.BIN", "System Volume Information",
     "Windows", "Program Files", "Program Files (x86)"}

\* A traversal that never looks at the cancellation.
CancelledNever(session) == FALSE

\* !session.isRunning || session.abortController.signal.aborted
Cancelled(session) == ~session.isRunning \/ session.aborted

Reading(session, stack, dirPath) ==
    [session |-> session, stack |-> stack, pending |-> dirPath,
     state |-> "reading"]

\* asyncSearchFiles from the point where a call resumes or returns up to
\* the next await of fs.readdir, or to the end of the outermost call and
\* the callback of its promise. `stack` holds the suspended calls, the
\* innermost last, each with the entries its for loop has not visited yet.
\* All of it runs in one turn of the event loop: the continuations of the
\* awaits are microtasks.
RECURSIVE asyncSearchFiles(_, _)
asyncSearchFiles(session, stack) ==
    IF stack = <<>>
    THEN \* .then(() => { session.isRunning = false })
         [session |-> [session EXCEPT !.isRunning = FALSE], stack |-> <<>>,
          pending |-> <<>>, state |-> "done"]
    ELSE LET top == stack[Len(stack)]
             callers == SubSeq(stack, 1, Len(stack) - 1)
         IN
         IF top.rest = <<>> THEN asyncSearchFiles(session, callers)
         ELSE IF Cancelled(session) THEN asyncSearchFiles(session, callers)
         ELSE LET entry == Head(top.rest)
                  fullPath == Append(top.dir, entry.name)
                  resumed == Append(callers, [top EXCEPT !.rest = Tail(@)])
              IN
              IF entry.isDir
              THEN IF entry.name \notin SkipList
                   THEN \* the recursive call: its guard, then its readdir
                        IF Cancelled(session)
                        THEN asyncSearchFiles(session, resumed)
                        ELSE Reading(session, resumed, fullPath)
                   ELSE asyncSearchFiles(session, resumed)
              ELSE IF Test(session.pattern, Chars[entry.name])
              THEN asyncSearchFiles(
                       [session EXCEPT !.results = Append(@, fullPath)],
                       resumed)
              ELSE asyncSearchFiles(session, resumed)

SearchIds == DOMAIN ssession
BogusSearch == <<"search", 0, 0>>
SearchArgs == SearchIds \cup {BogusSearch}

Resume(id, r) ==
    /\ ssession' = [ssession EXCEPT ![id] = r.session]
    /\ task' = [task EXCEPT ![id] = [stack |-> r.stack,
                                      pending |-> r.pending,
                                      state |-> r.state]]

\* A walk that starts at the second entry of each listing.
ReaddirResolvesSkipsFirst(id) ==
    /\ id \in SearchIds
    /\ task[id].state = "reading"
    /\ task[id].pending \in Directories
    /\ Resume(id, asyncSearchFiles(
                      [ssession[id] EXCEPT !.scannedDirs = @ + 1],
                      Append(task[id].stack,
                             [dir |-> task[id].pending,
                              rest |-> Tail(Tree[task[id].pending])])))
    /\ last' = NoReply
    /\ UNCHANGED <<procVars, searchCounter, searchSessions, sghost>>

\* fs.readdir resolves: count the directory, then walk its entries.
ReaddirResolves(id) ==
    /\ id \in SearchIds
    /\ task[id].state = "reading"
    /\ task[id].pending \in Directories
    /\ Resume(id, asyncSearchFiles(
                      [ssession[id] EXCEPT !.scannedDirs = @ + 1],
                      Append(task[id].stack,
                             [dir |-> task[id].pending,
                              rest |-> Tree[task[id].pending]])))
    /\ last' = NoReply
    /\ UNCHANGED <<procVars, searchCounter, searchSessions, sghost>>

\* A catch block that throws away what the search has collected so far.
ReaddirRejectsResets(id) ==
    /\ id \in SearchIds
    /\ task[id].state = "reading"
    /\ Resume(id, asyncSearchFiles([ssession[id] EXCEPT !.results = <<>>],
                                   task[id].stack))
    /\ last' = NoReply
    /\ UNCHANGED <<procVars, searchCounter, searchSessions, sghost>>

\* A rejection nobody catches: the traversal stops where it is and the
\* session is never marked as ended.
ReaddirRejectsHangs(id) ==
    /\ id \in SearchIds
    /\ task[id].state = "reading"
    /\ task' = [task EXCEPT ![id].state = "failed"]
    /\ last' = NoReply
    /\ UNCHANGED <<procVars, searchCounter, searchSessions, ssession, sghost>>

\* A rejection that ends the whole traversal, the callers of the failed
\* call included.
ReaddirRejectsAbandons(id) ==
    /\ id \in SearchIds
    /\ task[id].state = "reading"
    /\ Resume(id, asyncSearchFiles(ssession[id], <<>>))
    /\ last' = NoReply
    /\ UNCHANGED <<procVars, searchCounter, searchSessions, sghost>>

\* fs.readdir rejects (not a directory, no permission, an I/O error): the
\* catch block swallows it and the call returns.
ReaddirRejects(id) ==
    /\ id \in SearchIds
    /\ task[id].state = "reading"
    /\ Resume(id, asyncSearchFiles(ssession[id], task[id].stack))
    /\ last' = NoReply
    /\ UNCHANGED <<procVars, searchCounter, searchSessions, sghost>>

\* ---------------------------------------------------------- search handlers
\* `search_${++searchCounter}_${Date.now()}`
generateSearchId(counter, now) == <<"search", counter, now>>

HasSearch(id) == id \in Range(searchSessions)

\* fc_start_search that awaits the listing of the start directory, and the
\* walk of its entries up to the next listing, before it returns.
StartSearchBlocking(directory, pattern, now) ==
    LET dirPath == normalizePath(directory)
        searchId == generateSearchId(searchCounter + 1, now)
        session == [id |-> searchId, directory |-> dirPath,
                    pattern |-> RegExp(Chars[pattern]),
                    patternString |-> pattern, results |-> <<>>,
                    isRunning |-> TRUE, scannedDirs |-> 0,
                    aborted |-> FALSE]
        walked == IF dirPath \in Directories
                  THEN asyncSearchFiles(
                           [session EXCEPT !.scannedDirs = 1],
                           <<[dir |-> dirPath, rest |-> Tree[dirPath]]>>)
                  ELSE asyncSearchFiles(session, <<>>)
    IN
    IF ~pathExists(dirPath)
    THEN /\ last' = Reply("start_search", BogusSearch, FALSE, "NotFound")
         /\ UNCHANGED <<procVars, searchVars>>
    ELSE /\ searchCounter' = searchCounter + 1
         /\ searchSessions' = Append(searchSessions, searchId)
         /\ ssession' = ssession @@ (searchId :> walked.session)
         /\ task' = task @@ (searchId :> [stack |-> walked.stack,
                                          pending |-> walked.pending,
                                          state |-> walked.state])
         /\ sghost' = sghost @@ (searchId :> [stopped |-> FALSE,
                                              results |-> <<>>,
                                              scannedDirs |-> 0])
         /\ last' = Reply("start_search", searchId, FALSE, "ok")
         /\ UNCHANGED procVars

\* fc_start_search
StartSearch(directory, pattern, now) ==
    LET dirPath == normalizePath(directory)
        searchId == generateSearchId(searchCounter + 1, now)
        session == [id |-> searchId, directory |-> dirPath,
                    pattern |-> RegExp(Chars[pattern]),
                    patternString |-> pattern, results |-> <<>>,
                    isRunning |-> TRUE, scannedDirs |-> 0,
                    aborted |-> FALSE]
    IN
    IF ~pathExists(dirPath)
    THEN /\ last' = Reply("start_search", BogusSearch, FALSE, "NotFound")
         /\ UNCHANGED <<procVars, searchVars>>
    ELSE /\ searchCounter' = searchCounter + 1
         /\ searchSessions' = Append(searchSessions, searchId)
         /\ ssession' = ssession @@ (searchId :> session)
         \* asyncSearchFiles(session, dirPath) runs up to its first await
         /\ task' = task @@ (searchId :> [stack |-> <<>>, pending |-> dirPath,
                                          state |-> "reading"])
         /\ sghost' = sghost @@ (searchId :> [stopped |-> FALSE,
                                              results |-> <<>>,
                                              scannedDirs |-> 0])
         /\ last' = Reply("start_search", searchId, FALSE, "ok")
         /\ UNCHANGED procVars

\* slice with the end index taken as inclusive.
SliceInclusive(s, from, to) ==
    SubSeq(s, from + 1, IF to + 1 < Len(s) THEN to + 1 ELSE Len(s))

\* Array.prototype.slice(from, to) for 0 <= from <= to.
Slice(s, from, to) ==
    SubSeq(s, from + 1, IF to < Len(s) THEN to ELSE Len(s))

\* fc_get_search_results
GetSearchResults(id, offset, limit) ==
    /\ last' =
         IF ~HasSearch(id)
         THEN Reply("get_results", id, FALSE, "NotFound")
         ELSE [Reply("get_results", id, FALSE, "ok") EXCEPT
                  !.offset = offset, !.limit = limit,
                  !.running = ssession[id].isRunning,
                  !.scanned = ssession[id].scannedDirs,
                  !.total = Len(ssession[id].results),
                  !.page = Slice(ssession[id].results, offset, offset + limit),
                  !.more = Len(ssession[id].results) > offset + limit]
    /\ UNCHANGED <<procVars, searchVars>>

\* fc_stop_search that only aborts and leaves isRunning to the traversal.
StopSearchSignalOnly(id) ==
    IF ~HasSearch(id)
    THEN /\ last' = Reply("stop", id, FALSE, "NotFound")
         /\ UNCHANGED <<procVars, searchVars>>
    ELSE /\ sghost' = [sghost EXCEPT ![id] =
                          [stopped |-> TRUE,
                           results |-> ssession[id].results,
                           scannedDirs |-> ssession[id].scannedDirs]]
         /\ IF ~ssession[id].isRunning
            THEN /\ last' = [Reply("stop", id, FALSE, "already") EXCEPT
                                !.total = Len(ssession[id].results)]
                 /\ UNCHANGED ssession
            ELSE /\ ssession' = [ssession EXCEPT ![id].aborted = TRUE]
                 /\ last' = [Reply("stop", id, FALSE, "ok") EXCEPT
                                !.total = Len(ssession[id].results)]
         /\ UNCHANGED <<procVars, searchCounter, searchSessions, task>>

\* fc_stop_search without the test for a search that has ended: it aborts
\* again and reports a fresh stop.
StopSearchRepeats(id) ==
    IF ~HasSearch(id)
    THEN /\ last' = Reply("stop", id, FALSE, "NotFound")
         /\ UNCHANGED <<procVars, searchVars>>
    ELSE /\ sghost' = [sghost EXCEPT ![id] =
                          [stopped |-> TRUE,
                           results |-> ssession[id].results,
                           scannedDirs |-> ssession[id].scannedDirs]]
         /\ ssession' = [ssession EXCEPT ![id].isRunning = FALSE,
                                          ![id].aborted = TRUE]
         /\ last' = [Reply("stop", id, FALSE, "ok") EXCEPT
                        !.total = Len(ssession[id].results)]
         /\ UNCHANGED <<procVars, searchCounter, searchSessions, task>>

\* fc_stop_search that also drops the search from the registry.
StopSearchRemoves(id) ==
    IF ~HasSearch(id)
    THEN /\ last' = Reply("stop", id, FALSE, "NotFound")
         /\ UNCHANGED <<procVars, searchVars>>
    ELSE /\ sghost' = [sghost EXCEPT ![id] =
                          [stopped |-> TRUE,
                           results |-> ssession[id].results,
                           scannedDirs |-> ssession[id].scannedDirs]]
         /\ IF ~ssession[id].isRunning
            THEN /\ last' = [Reply("stop", id, FALSE, "already") EXCEPT
                                !.total = Len(ssession[id].results)]
                 /\ UNCHANGED ssession
            ELSE /\ ssession' = [ssession EXCEPT ![id].isRunning = FALSE,
                                                 ![id].aborted = TRUE]
                 /\ last' = [Reply("stop", id, FALSE, "ok") EXCEPT
                                !.total = Len(ssession[id].results)]
         /\ searchSessions' = MapDelete(searchSessions, id)
         /\ UNCHANGED <<procVars, searchCounter, task>>

\* fc_stop_search
StopSearch(id) ==
    IF ~HasSearch(id)
    THEN /\ last' = Reply("stop", id, FALSE, "NotFound")
         /\ UNCHANGED <<procVars, searchVars>>
    ELSE /\ sghost' = [sghost EXCEPT ![id] =
                          [stopped |-> TRUE,
                           results |-> ssession[id].results,
                           scannedDirs |-> ssession[id].scannedDirs]]
         /\ IF ~ssession[id].isRunning
            THEN /\ last' = [Reply("stop", id, FALSE, "already") EXCEPT
                                !.total = Len(ssession[id].results)]
                 /\ UNCHANGED ssession
            ELSE /\ ssession' = [ssession EXCEPT ![id].isRunning = FALSE,
                                                 ![id].aborted = TRUE]
                 /\ last' = [Reply("stop", id, FALSE, "ok") EXCEPT
                                !.total = Len(ssession[id].results)]
         /\ UNCHANGED <<procVars, searchCounter, searchSessions, task>>

\* The rows fc_list_searches renders, in Map order.
SearchRows ==
    [i \in 1 .. Len(searchSessions) |->
        [id |-> searchSessions[i],
         pattern |-> ssession[searchSessions[i]].patternString,
         resultCount |-> Len(ssession[searchSessions[i]].results),
         isRunning |-> ssession[searchSessions[i]].isRunning]]

\* fc_list_searches
ListSearches ==
    /\ last' = [Reply("list_searches", BogusSearch, FALSE, "ok") EXCEPT
                   !.rows = SearchRows]
    /\ UNCHANGED <<procVars, searchVars>>

\* A sweep that empties the registry, running searches included.
DeleteEverything(keys) == <<>>

\* for (const [id, session] of searchSessions) if (!session.isRunning) delete
RECURSIVE DeleteEnded(_)
DeleteEnded(keys) ==
    IF keys = <<>> THEN <<>>
    ELSE IF ~ssession[Head(keys)].isRunning THEN DeleteEnded(Tail(keys))
    ELSE <<Head(keys)>> \o DeleteEnded(Tail(keys))

\* fc_clear_search with search_id "all"
ClearAllSearches ==
    /\ searchSessions' = DeleteEnded(searchSessions)
    /\ last' = [Reply("clear_all", BogusSearch, FALSE, "ok") EXCEPT
                   !.total = Len(searchSessions)
                             - Len(DeleteEnded(searchSessions))]
    /\ UNCHANGED <<procVars, searchCounter, ssession, task, sghost>>

\* fc_clear_search with a search id, without the test for a running search.
ClearSearchAnyState(id) ==
    IF ~HasSearch(id)
    THEN /\ last' = Reply("clear", id, FALSE, "NotFound")
         /\ UNCHANGED <<procVars, searchVars>>
    ELSE /\ searchSessions' = MapDelete(searchSessions, id)
         /\ last' = Reply("clear", id, FALSE, "ok")
         /\ UNCHANGED <<procVars, searchCounter, ssession, task, sghost>>

\* fc_clear_search with a search id
ClearSearch(id) ==
    IF ~HasSearch(id)
    THEN /\ last' = Reply("clear", id, FALSE, "NotFound")
         /\ UNCHANGED <<procVars, searchVars>>
    ELSE IF ssession[id].isRunning
    THEN /\ last' = Reply("clear", id, FALSE, "InvalidState")
         /\ UNCHANGED <<procVars, searchVars>>
    ELSE /\ searchSessions' = MapDelete(searchSessions, id)
         /\ last' = Reply("clear", id, FALSE, "ok")
         /\ UNCHANGED <<procVars, searchCounter, ssession, task, sghost>>


\* ---------------------------------------------------------- specifications
RECURSIVE SumEmitted(_)
SumEmitted(S) ==
    IF S = {} THEN 0
    ELSE LET x == CHOOSE y \in S : TRUE
         IN proc[x].emitted + SumEmitted(S \ {x})

RECURSIVE SumWritten(_)
SumWritten(S) ==
    IF S = {} THEN 0
    ELSE LET x == CHOOSE y \in S : TRUE
         IN Len(proc[x].stdin) + SumWritten(S \ {x})

TotalEmitted == SumEmitted(SessionIds)
TotalWritten == SumWritten(SessionIds)

ProcNext ==
    \/ \E c \in Commands, t \in Timestamps :
          sessionCounter < MaxSessions /\ StartSession(c, t)
    \/ sessionCounter < MaxSessions /\ StartSessionThrows
    \/ \E id \in SessionIds : TotalEmitted < MaxChunks /\ StdoutData(id)
    \/ \E id \in SessionIds : TotalEmitted < MaxChunks /\ StderrData(id)
    \/ \E id \in SessionIds, code \in ExitCodes : ProcClose(id, code)
    \/ \E id \in SessionIds : ProcError(id)
    \/ \E id \in SessionArgs, clear \in BOOLEAN : ReadOutput(id, clear)
    \/ \E id \in SessionArgs, input \in Inputs, newline \in BOOLEAN :
          /\ (HasSession(id) /\ psession[id].isRunning)
                => TotalWritten < MaxWrites
          /\ SendInput(id, input, newline)
    \/ ListSessions
    \/ \E id \in SessionArgs, force \in BOOLEAN : CloseSession(id, force)

SpecProc == Init /\ [][ProcNext]_vars

\* The long-transcript specification follows one session from its start
\* through MaxBurst chunks.
CapInit ==
    \E c \in Commands, t \in Timestamps :
        LET id == generateSessionId(1, t) IN
        /\ sessionCounter = 1
        /\ processSessions = <<id>>
        /\ psession = (id :> NewSession(id, c))
        /\ proc = (id :> NewProcess)
        /\ ghost = (id :> NewHistory)
        /\ searchCounter = 0
        /\ searchSessions = <<>>
        /\ ssession = <<>>
        /\ task = <<>>
        /\ sghost = <<>>
        /\ last = Reply("start", id, FALSE, "ok")

InCapWindow(id) ==
    /\ Len(psession[id].output) >= NearCap
    /\ Len(psession[id].output) <= NearCap + CapWindow

CapNext ==
    \/ \E id \in SessionIds : proc[id].emitted < MaxBurst /\ StdoutData(id)
    \/ \E id \in SessionIds :
          proc[id].emitted < MaxBurst /\ InCapWindow(id) /\ StderrData(id)
    \/ \E id \in SessionIds, code \in ExitCodes :
          InCapWindow(id) /\ ProcClose(id, code)
    \/ \E id \in SessionIds : InCapWindow(id) /\ ProcError(id)
    \/ \E id \in SessionIds, clear \in BOOLEAN :
          /\ InCapWindow(id) \/ proc[id].emitted >= MaxBurst - 1
          /\ ReadOutput(id, clear)

SpecCap == CapInit /\ [][CapNext]_vars

Offsets == 0 .. MaxOffset
Limits == 1 .. MaxLimit

SearchNext ==
    \/ \E d \in StartDirectories, p \in Patterns, t \in Timestamps :
          searchCounter < MaxSearches /\ StartSearch(d, p, t)
    \/ \E id \in SearchIds : ReaddirResolves(id)
    \/ \E id \in SearchIds : ReaddirRejects(id)
    \/ \E id \in SearchArgs, offset \in Offsets, limit \in Limits :
          GetSearchResults(id, offset, limit)
    \/ \E id \in SearchArgs : StopSearch(id)
    \/ ListSearches
    \/ ClearAllSearches
    \/ \E id \in SearchArgs : ClearSearch(id)

SpecSearch == Init /\ [][SearchNext]_vars

\* Every id a search can get within the bounds.
AllSearchIds ==
    {generateSearchId(c, t) : c \in 1 .. MaxSearches, t \in Timestamps}

\* The promise of fs.readdir settles: it resolves or it rejects.
ReaddirSettles(id) == ReaddirResolves(id) \/ ReaddirRejects(id)

\* The operations that write isRunning: the start of a search, the steps of
\* its traversal and stop.
TraverseNext ==
    \/ \E d \in StartDirectories, p \in Patterns, t \in Timestamps :
          searchCounter < MaxSearches /\ StartSearch(d, p, t)
    \/ \E id \in SearchIds : ReaddirResolves(id)
    \/ \E id \in SearchIds : ReaddirRejects(id)
    \/ \E id \in SearchArgs : StopSearch(id)

\* The traversals with a fair event loop: a readdir that is awaited settles
\* and its continuation runs.
SpecSearchFair ==
    /\ Init
    /\ [][TraverseNext]_vars
    /\ \A id \in AllSearchIds : WF_vars(ReaddirSettles(id))

\* The two registries side by side, one session each. Every operation that
\* takes an id is called with the ids of both registries, registered or
\* removed, and with ids that were never issued; the search walks the
\* one-file directory.
RegistryDirectories == {<<"p", "node_modules">>, <<"nope">>}
RegistryArgs == SessionArgs \cup SearchArgs

RegistryNext ==
    \/ \E c \in Commands, t \in Timestamps :
          sessionCounter < MaxSessions /\ StartSession(c, t)
    \/ \E id \in SessionIds, code \in ExitCodes : ProcClose(id, code)
    \/ \E id \in RegistryArgs, clear \in BOOLEAN : ReadOutput(id, clear)
    \/ \E id \in RegistryArgs, input \in Inputs, newline \in BOOLEAN :
          /\ (HasSession(id) /\ psession[id].isRunning)
                => TotalWritten < MaxWrites
          /\ SendInput(id, input, newline)
    \/ \E id \in RegistryArgs, force \in BOOLEAN : CloseSession(id, force)
    \/ \E d \in RegistryDirectories, p \in Patterns, t \in Timestamps :
          searchCounter < MaxSessions /\ StartSearch(d, p, t)
    \/ \E id \in SearchIds : ReaddirResolves(id)
    \/ \E id \in SearchIds : ReaddirRejects(id)
    \/ \E id \in RegistryArgs, offset \in Offsets, limit \in Limits :
          GetSearchResults(id, offset, limit)
    \/ \E id \in RegistryArgs : StopSearch(id)
    \/ \E id \in RegistryArgs : ClearSearch(id)

SpecRegistry == Init /\ [][RegistryNext]_vars

\* The operations that issue ids and those that remove sessions, up to
\* MaxStarts starts per registry.
IdsNext ==
    \/ \E c \in Commands, t \in Timestamps :
          sessionCounter < MaxStarts /\ StartSession(c, t)
    \/ sessionCounter < MaxStarts /\ StartSessionThrows
    \/ \E id \in SessionArgs, force \in BOOLEAN : CloseSession(id, force)
    \/ \E d \in RegistryDirectories, p \in Patterns, t \in Timestamps :
          searchCounter < MaxStarts /\ StartSearch(d, p, t)
    \/ \E id \in SearchIds : ReaddirResolves(id)
    \/ \E id \in SearchIds : ReaddirRejects(id)
    \/ \E id \in SearchArgs : StopSearch(id)
    \/ ClearAllSearches
    \/ \E id \in SearchArgs : ClearSearch(id)

SpecIds == Init /\ [][IdsNext]_vars

\* Searches over the parts of the tree where a directory is followed by a
\* sibling or holds a sub-directory, with listings that fail.
FailureDirectories == {<<"q">>, <<"p", "sub">>}

FailureNext ==
    \/ \E d \in FailureDirectories, p \in Patterns, t \in Timestamps :
          searchCounter < MaxSearches /\ StartSearch(d, p, t)
    \/ \E id \in SearchIds : ReaddirResolves(id)
    \/ \E id \in SearchIds : ReaddirRejects(id)
    \/ \E id \in SearchArgs, offset \in Offsets, limit \in Limits :
          GetSearchResults(id, offset, limit)
    \/ \E id \in SearchArgs : StopSearch(id)
    \/ ListSearches

SpecFailure == Init /\ [][FailureNext]_vars

\* The pattern compiler on its own: a pattern and a base name are drawn,
\* the pattern is compiled as fc_start_search compiles it and tested as
\* asyncSearchFiles tests an entry's name.
PatternChars == {"a", ".", "+", "(", "[", "*", "?"}
NameChars == {"a", "A", "b", ".", "+", "(", "[", "\n"}

SeqsUpTo(S, n) == UNION {[1..k -> S] : k \in 0..n}

MatchInit ==
    /\ sessionCounter = 0
    /\ processSessions = <<>>
    /\ psession = <<>>
    /\ proc = <<>>
    /\ ghost = <<>>
    /\ searchCounter = 0
    /\ searchSessions = <<>>
    /\ ssession = <<>>
    /\ task = <<>>
    /\ sghost = <<>>
    /\ \E pattern \in SeqsUpTo(PatternChars, MaxPatternLen),
          name \in SeqsUpTo(NameChars, MaxNameLen) :
          last = [Reply("pattern", BogusSession, FALSE, "ok")
                  EXCEPT !.text = pattern, !.out = name]

PatternTest ==
    /\ last.op = "pattern"
    /\ last' = [last EXCEPT !.op = "test",
                            !.arg = Test(RegExp(last.text), last.out)]
    /\ UNCHANGED <<procVars, searchVars>>

MatchNext == PatternTest

SpecMatch == MatchInit /\ [][MatchNext]_vars

\* Process sessions whose child may end before Node reports it.
ExitNext ==
    \/ \E c \in Commands, t \in Timestamps :
          sessionCounter < MaxSessions /\ StartSession(c, t)
    \/ \E id \in SessionIds : TotalEmitted < MaxChunks /\ StdoutData(id)
    \/ \E id \in SessionIds : ProcExit(id)
    \/ \E id \in SessionIds, code \in ExitCodes : ProcClose(id, code)
    \/ \E id \in SessionIds : ProcError(id)
    \/ \E id \in SessionArgs, clear \in BOOLEAN : ReadOutput(id, clear)
    \/ \E id \in SessionArgs, input \in Inputs, newline \in BOOLEAN :
          /\ (HasSession(id) /\ psession[id].isRunning)
                => TotalWritten < MaxWrites
          /\ SendInput(id, input, newline)
    \/ \E id \in SessionArgs, force \in BOOLEAN : CloseSession(id, force)

SpecExit == Init /\ [][ExitNext]_vars

\* Up to MaxStarts sessions, in one registry or spread over both, with
\* their background events: the operations that take an id, and every
\* callback of a process and of a traversal.
EventsDirectories == {<<"q">>}

EventsNext ==
    \/ \E c \in Commands, t \in Timestamps :
          sessionCounter + searchCounter < MaxStarts /\ StartSession(c, t)
    \/ \E id \in SessionIds : TotalEmitted < MaxSessions /\ StdoutData(id)
    \/ \E id \in SessionIds : TotalEmitted < MaxSessions /\ StderrData(id)
    \/ \E id \in SessionIds : ProcExit(id)
    \/ \E id \in SessionIds : ProcClose(id, 0)
    \/ \E id \in SessionIds : ProcError(id)
    \/ \E id \in SessionIds : ReadOutput(id, TRUE)
    \/ \E id \in SessionIds, input \in Inputs :
          /\ (HasSession(id) /\ psession[id].isRunning)
                => TotalWritten < MaxWrites
          /\ SendInput(id, input, TRUE)
    \/ \E id \in SessionIds : CloseSession(id, FALSE)
    \/ \E d \in EventsDirectories, p \in Patterns, t \in Timestamps :
          sessionCounter + searchCounter < MaxStarts /\ StartSearch(d, p, t)
    \/ \E id \in SearchIds : ReaddirResolves(id)
    \/ \E id \in SearchIds : ReaddirRejects(id)
    \/ \E id \in SearchIds : StopSearch(id)
    \/ \E id \in SearchIds : ClearSearch(id)

SpecEvents == Init /\ [][EventsNext]_vars

\* ------------------------------------------------------------------ properties
\* Every chunk the session was ever given: dropped by the cap, handed out by
\* a clearing read, or still in the transcript.
History(id) ==
    ghost[id].evicted \o ghost[id].cleared \o psession[id].output

NoDuplicates(s) == \A i, j \in 1 .. Len(s) : i # j => s[i] # s[j]

\* The last handler was a successful fc_read_output of id.
ReadOf(id) == last.op = "read" /\ last.id = id /\ last.res = "ok"

\* C1: after every stdout, stderr, close or error event the transcript of
\* a process session holds at most 1000 chunks.
C1_TranscriptCapped ==
    \A id \in SessionIds : Len(psession[id].output) <= OutputCap

\* Every chunk the session was given came from stdout.
StdoutOnly(id) == \A c \in Range(History(id)) : c.k = ""

\* The stdout chunks from .. to, in order.
StdoutRun(from, to) ==
    [i \in 1 .. (to - from + 1) |-> StdoutChunk(from + i - 1)]

\* C2 as stated: after 1500 chunks with no clearing read in between, a read
\* returns at most 500 chunks.
C2_ReadAtMost500 ==
    \A id \in SessionIds :
        (proc[id].emitted = 1500 /\ ghost[id].cleared = <<>> /\ ReadOf(id))
            => Len(last.out) <= 500

\* C2, amended: after 1500 stdout chunks with no other append and no
\* clearing read in between, the transcript, and so a read, is exactly the
\* 999 most recent chunks 502 .. 1500 (the cap cuts once, at chunk 1001, to
\* 500 chunks, and 499 follow); chunks 1 .. 501 are in no transcript and no
\* read from then on.
C2_ReadExactly999 ==
    \A id \in SessionIds :
        (StdoutOnly(id) /\ proc[id].emitted >= 1500) =>
            /\ \A c \in Range(psession[id].output) : c.n > 501
            /\ ReadOf(id) => \A c \in Range(last.out) : c.n > 501
            /\ (proc[id].emitted = 1500 /\ ghost[id].cleared = <<>>) =>
                  /\ psession[id].output = StdoutRun(502, 1500)
                  /\ ReadOf(id) => last.out = StdoutRun(502, 1500)

\* C2 witness: a read right after the 1500th stdout chunk, nothing cleared.
C2_Witness ==
    \E id \in SessionIds :
        /\ StdoutOnly(id)
        /\ proc[id].emitted = 1500
        /\ ghost[id].cleared = <<>>
        /\ ReadOf(id)
        /\ Len(last.out) = 999

\* C3, in every state: no chunk is handed out by two clearing reads or is
\* still in the transcript after a clearing read returned it; every chunk
\* the process emitted is in the transcript, was handed out by a clearing
\* read, or was dropped by the cap; a chunk the cap dropped is never read.
C3_Inv ==
    \A id \in SessionIds :
        /\ NoDuplicates(ghost[id].cleared \o psession[id].output)
        /\ \A n \in 1 .. proc[id].emitted :
              \E c \in Range(History(id)) : c.n = n /\ ~IsTerminal(c)
        /\ Range(ghost[id].evicted)
              \cap Range(ghost[id].cleared \o psession[id].output) = {}

\* C3, in every step: a clearing read replies with the whole transcript as
\* it is when the read is handled, and leaves it empty.
C3_Step ==
    \A id \in SessionIds :
        (last'.op = "read" /\ last'.id = id /\ last'.res = "ok" /\ last'.arg)
            => /\ last'.out = Join(psession[id].output)
               /\ psession'[id].output = <<>>
               /\ ghost'[id].cleared = ghost[id].cleared \o last'.out

\* C3: read(id, clear=true) returns the whole transcript and empties it in
\* one step; a chunk the cap has not dropped goes to exactly one clearing
\* read, is never lost and never returned twice.
C3_ClearingReadIsAtomic == []C3_Inv /\ [][C3_Step]_vars

\* C3 witness: a second clearing read returned chunks that arrived after the
\* first one.
C3_Witness ==
    \E id \in SessionIds :
        /\ ReadOf(id)
        /\ last.arg
        /\ Len(last.out) >= 1
        /\ Len(ghost[id].cleared) > Len(last.out)
        /\ psession[id].output = <<>>

\* C4, in every state: after a successful close the id is not in the
\* registry; read and write on an id that is not in the registry reply
\* NotFound; the list holds the registered ids only.
C4_Inv ==
    /\ (last.op = "close" /\ last.res = "ok") => ~HasSession(last.id)
    /\ (last.op \in {"read", "write"} /\ ~HasSession(last.id))
          => last.res = "NotFound"
    /\ last.op = "list" =>
          {last.rows[i].id : i \in 1 .. Len(last.rows)}
              = Range(processSessions)

\* C4, in every step: close on a registered id succeeds and removes it in
\* that step; close on any other id replies NotFound; an id that has left
\* the registry does not return.
C4_Step ==
    \A id \in SessionArgs :
        /\ (last'.op = "close" /\ last'.id = id /\ HasSession(id))
              => last'.res = "ok" /\ id \notin Range(processSessions')
        /\ (last'.op = "close" /\ last'.id = id /\ ~HasSession(id))
              => last'.res = "NotFound"
        /\ ~HasSession(id) => id \notin Range(processSessions')

\* C4: close(id, force) removes a registered session in the same step, for
\* either force and whether or not the exit was handled; from then on the
\* list does not hold id and read, write and close reply NotFound.
C4_CloseRemovesAtOnce == []C4_Inv /\ [][C4_Step]_vars

\* C4 witness: a graceful close of a session whose process is alive and
\* whose close event has not been handled.
C4_Witness ==
    /\ last.op = "close"
    /\ last.res = "ok"
    /\ ~last.arg
    /\ ~HasSession(last.id)
    /\ proc[last.id].alive
    /\ ~proc[last.id].closed
    /\ psession[last.id].isRunning

\* C5, in every step that handles a write.
C5_Step ==
    last'.op = "write" =>
        LET id == last'.id
            inputText == IF last'.arg THEN last'.text \o <<"\n">>
                         ELSE last'.text
        IN
        /\ ~HasSession(id) =>
              last'.res = "NotFound" /\ UNCHANGED <<procVars, searchVars>>
        /\ (HasSession(id) /\ ~psession[id].isRunning) =>
              last'.res = "SessionEnded" /\ UNCHANGED <<procVars, searchVars>>
        /\ (HasSession(id) /\ psession[id].isRunning) =>
              /\ last'.res = "ok"
              /\ last'.text \in Inputs
              /\ proc' = [proc EXCEPT ![id].stdin = Append(@, inputText)]
              /\ UNCHANGED <<sessionCounter, processSessions, psession,
                             searchVars>>

\* C5: write fails with SessionNotFound on an unregistered id and with
\* SessionEnded on a session that is not running, writing nothing and
\* changing nothing; otherwise it writes the input, with the newline when
\* asked, to the input stream and acknowledges.
C5_WriteGuards == [][C5_Step]_vars

\* C5 witness: a write refused on a registered session that has ended,
\* after an earlier write reached the process.
C5_Witness ==
    /\ last.op = "write"
    /\ last.res = "SessionEnded"
    /\ HasSession(last.id)
    /\ ~psession[last.id].isRunning
    /\ Len(proc[last.id].stdin) = 1

TerminalEntries(id) ==
    Cardinality({i \in 1 .. Len(History(id)) : IsTerminal(History(id)[i])})

\* C6: over any sequence of close and error events of a process, its
\* session is given exactly one terminal transcript entry.
C6_OneTerminalEntry ==
    \A id \in SessionIds :
        /\ TerminalEntries(id) <= 1
        /\ (proc[id].closed \/ proc[id].errored) => TerminalEntries(id) = 1

\* C7, in every state: isRunning is true exactly until the first close or
\* error event was handled.
C7_Inv ==
    \A id \in SessionIds :
        psession[id].isRunning = ~(proc[id].closed \/ proc[id].errored)

\* C7, in every step: isRunning does not turn true again; an entry leaves
\* the registry only in a close of that id; a read of a registered id,
\* running or not, replies with its transcript.
C7_Step ==
    \A id \in SessionIds :
        /\ ~psession[id].isRunning => ~psession'[id].isRunning
        /\ (HasSession(id) /\ id \notin Range(processSessions'))
              => last'.op = "close" /\ last'.id = id
        /\ (HasSession(id) /\ last'.op = "read" /\ last'.id = id)
              => /\ last'.res = "ok"
                 /\ last'.out = Join(psession[id].output)
                 /\ last'.running = psession[id].isRunning
        /\ (HasSession(id) /\ last'.op = "list")
              => \E i \in 1 .. Len(last'.rows) :
                    /\ last'.rows[i].id = id
                    /\ last'.rows[i].isRunning = psession[id].isRunning

\* C7: isRunning is true from creation, false from the first close or error
\* event on and never true again; the event leaves the session registered,
\* listed and readable until close(id).
C7_RunningFlipsOnce == []C7_Inv /\ [][C7_Step]_vars

\* C7 witness: a read of an ended, still registered session returned its
\* transcript.
C7_Witness ==
    /\ last.op = "read"
    /\ last.res = "ok"
    /\ HasSession(last.id)
    /\ ~psession[last.id].isRunning
    /\ proc[last.id].closed
    /\ Len(last.out) >= 2

\* C8, in every step: a stop of a running search sets the signal and clears
\* isRunning in the step that replies, and the traversal has not moved in
\* it; isRunning does not turn true again.
C8_Step ==
    \A id \in SearchIds :
        /\ (last'.op = "stop" /\ last'.id = id /\ HasSearch(id)
            /\ ssession[id].isRunning)
              => /\ last'.res = "ok"
                 /\ ssession'[id].aborted
                 /\ ~ssession'[id].isRunning
                 /\ task'[id] = task[id]
        /\ ~ssession[id].isRunning => ~ssession'[id].isRunning

\* C8: stop(id) on a running search sets the cancellation signal and
\* isRunning = false in one step, before the traversal has seen the signal;
\* isRunning, once false by stop or by completion, stays false.
C8_StopFlipsAtOnce == [][C8_Step]_vars

\* C8 witness: stop has replied while the traversal still awaits a readdir.
C8_Witness ==
    \E id \in SearchIds :
        /\ last.op = "stop"
        /\ last.id = id
        /\ last.res = "ok"
        /\ ~ssession[id].isRunning
        /\ ssession[id].aborted
        /\ task[id].state = "reading"

\* C9: once stop(id) has returned, the results of the session are those it
\* had then, in every later state, whatever the traversal still does; a
\* getResults on the registered session succeeds and reports them.
C9_ResultsFrozenByStop ==
    \A id \in SearchIds :
        sghost[id].stopped =>
            /\ ssession[id].results = sghost[id].results
            /\ (last.op = "get_results" /\ last.id = id /\ HasSearch(id)) =>
                  /\ last.res = "ok"
                  /\ last.total = Len(sghost[id].results)
                  /\ last.page = Slice(sghost[id].results, last.offset,
                                       last.offset + last.limit)

\* C9 witness: stop came before the first listing completed; the listing
\* completed afterwards (the directory was counted), and getResults reports
\* no result.
C9_Witness ==
    \E id \in SearchIds :
        /\ sghost[id].stopped
        /\ sghost[id].scannedDirs = 0
        /\ ssession[id].scannedDirs = 1
        /\ task[id].state = "done"
        /\ last.op = "get_results"
        /\ last.id = id
        /\ last.res = "ok"
        /\ last.total = 0

\* C10, in every step: a stop of a registered search that is not running
\* replies "already completed", which is no error, and changes nothing of
\* the registry, the session or its traversal.
C10_Step ==
    \A id \in SearchIds :
        (last'.op = "stop" /\ last'.id = id /\ HasSearch(id)
         /\ ~ssession[id].isRunning)
            => /\ last'.res = "already"
               /\ last'.total = Len(ssession[id].results)
               /\ UNCHANGED <<searchCounter, searchSessions, ssession, task>>

\* C10: stop is idempotent: a second stop on a registered search, and a
\* stop on a search that completed by itself, reply "already completed"
\* without error and change no session state.
C10_StopIdempotent == [][C10_Step]_vars

\* C10 witness: the second stop of a search (the first one set the signal).
C10_Witness ==
    \E id \in SearchIds :
        /\ last.op = "stop"
        /\ last.id = id
        /\ last.res = "already"
        /\ ssession[id].aborted
        /\ HasSearch(id)

\* The keys of a registry without id, in their order.
Without(keys, id) == SelectSeq(keys, LAMBDA k : k # id)

\* C11, in every step that handles clear(id) on a registered search.
C11_Step ==
    \A id \in SearchIds :
        (last'.op = "clear" /\ last'.id = id /\ HasSearch(id)) =>
            IF ssession[id].isRunning
            THEN /\ last'.res = "InvalidState"
                 /\ UNCHANGED searchVars
            ELSE /\ last'.res = "ok"
                 /\ searchSessions' = Without(searchSessions, id)
                 /\ UNCHANGED <<searchCounter, ssession, task>>

\* C11: clear(id) on a running search fails with InvalidState and leaves
\* the registry and the session as they were; clear(id) on a search that is
\* not running removes that entry and no other.
C11_ClearGuardsRunning == [][C11_Step]_vars

\* C11 witness: an ended search was cleared while another one, still
\* running, stayed in the registry.
C11_Witness ==
    /\ last.op = "clear"
    /\ last.res = "ok"
    /\ ~HasSearch(last.id)
    /\ \E other \in Range(searchSessions) : ssession[other].isRunning

\* The registered searches that satisfy keep, in registry order.
Registered(keep(_)) == SelectSeq(searchSessions, keep)

\* C12, in every state: right after clear("all") every registered search
\* is running, so that an immediate second call finds nothing to remove.
C12_Inv ==
    last.op = "clear_all" =>
        /\ last.res = "ok"
        /\ \A id \in Range(searchSessions) : ssession[id].isRunning

\* C12, in every step that handles clear("all").
C12_Step ==
    last'.op = "clear_all" =>
        /\ last'.res = "ok"
        /\ searchSessions' =
              Registered(LAMBDA id : ssession[id].isRunning)
        /\ last'.total =
              Len(Registered(LAMBDA id : ~ssession[id].isRunning))
        /\ last.op = "clear_all" =>
              /\ last'.total = 0
              /\ searchSessions' = searchSessions
        /\ UNCHANGED <<searchCounter, ssession, task>>

\* C12: clear("all") removes exactly the searches that are not running at
\* the call, keeps every running one, reports the number removed and never
\* fails; called again at once it succeeds and removes 0.
C12_ClearAllSweepsEnded == []C12_Inv /\ [][C12_Step]_vars

\* C12 witness: of two registered searches the ended one was removed and
\* the running one kept.
C12_Witness ==
    /\ last.op = "clear_all"
    /\ last.total = 1
    /\ Len(searchSessions) = 1
    /\ ssession[searchSessions[1]].isRunning

\* results[offset .. offset+limit), written out element by element.
PageOf(results, offset, limit) ==
    LET avail == IF Len(results) > offset THEN Len(results) - offset ELSE 0
        n == IF avail < limit THEN avail ELSE limit
    IN [i \in 1 .. n |-> results[offset + i]]

\* C13: for a result sequence of length L, getResults(id, offset, limit)
\* returns results[offset .. offset+limit) in order (fewer when the sequence
\* ends first), total = L, and hasMore exactly when L > offset + limit; for
\* offset >= L the page is empty and hasMore is false.
C13_Pagination ==
    (last.op = "get_results" /\ last.res = "ok") =>
        LET results == ssession[last.id].results
            L == Len(results)
        IN /\ last.page = PageOf(results, last.offset, last.limit)
           /\ last.total = L
           /\ last.more = (L > last.offset + last.limit)
           /\ last.offset >= L => (last.page = <<>> /\ ~last.more)

\* C13 witness: the middle page of three results, with more to come.
C13_Witness ==
    /\ last.op = "get_results"
    /\ last.res = "ok"
    /\ last.total = 3
    /\ last.offset = 1
    /\ last.limit = 1
    /\ last.page = <<ssession[last.id].results[2]>>
    /\ last.more

IsPrefix(s, t) == Len(s) <= Len(t) /\ SubSeq(t, 1, Len(s)) = s

\* C14, in every step: the results of every search extend what they were;
\* a getResults reports the sequence as it is then and moves neither the
\* session nor its traversal.
C14_Step ==
    /\ \A id \in SearchIds :
          IsPrefix(ssession[id].results, ssession'[id].results)
    /\ last'.op = "get_results" =>
          /\ UNCHANGED <<searchCounter, searchSessions, ssession, task>>
          /\ last'.res = "ok" =>
                last'.total = Len(ssession[last'.id].results)

\* C14: the result sequence of a search is append-only, so what an earlier
\* getResults saw is a prefix of what a later one sees and total never
\* decreases; getResults answers from the current state without waiting
\* for the traversal.
C14_ResultsAppendOnly == [][C14_Step]_vars

\* C14 witness: getResults answered with one result while the traversal was
\* still awaiting a directory listing.
C14_Witness ==
    /\ last.op = "get_results"
    /\ last.res = "ok"
    /\ last.running
    /\ last.total = 1
    /\ task[last.id].state = "reading"

\* C15: over the finite tree, with the traversal steps scheduled fairly,
\* every started search reaches isRunning = false, whether or not it is
\* stopped and whether or not directory reads fail.
C15_SearchEnds ==
    \A id \in AllSearchIds :
        (id \in SearchIds /\ ssession[id].isRunning)
            ~> (id \in SearchIds /\ ~ssession[id].isRunning)

\* C15 witness: a search nobody stopped has ended although the read of its
\* root directory failed.
C15_Witness ==
    \E id \in SearchIds :
        /\ ssession[id].directory \in Directories
        /\ ~sghost[id].stopped
        /\ task[id].state = "done"
        /\ ssession[id].scannedDirs = 0
        /\ ~ssession[id].isRunning

\* path lies strictly below root.
IsUnder(root, path) ==
    Len(path) > Len(root) /\ SubSeq(path, 1, Len(root)) = root

\* The directories a complete walk from root reads: root, and every
\* directory below it that is reached through no skip-listed name.
WalkedDirectories(root) ==
    {d \in Directories :
        \/ d = root
        \/ /\ IsUnder(root, d)
           /\ \A i \in (Len(root) + 1) .. Len(d) : d[i] \notin SkipList}

\* The files below root whose base name matches, reached through
\* directories (below root) that are not skip-listed.
MatchingFiles(root, regex) ==
    {f \in Files :
        /\ IsUnder(root, f)
        /\ \A i \in (Len(root) + 1) .. (Len(f) - 1) : f[i] \notin SkipList
        /\ Test(regex, Chars[f[Len(f)]])}

\* A search that ran to its end, was never stopped, and whose every
\* directory read resolved (each walked directory was counted).
CompletedUndisturbed(id) ==
    /\ ssession[id].directory \in Directories
    /\ task[id].state = "done"
    /\ ~sghost[id].stopped
    /\ ssession[id].scannedDirs =
          Cardinality(WalkedDirectories(ssession[id].directory))

\* C16: a search that completes with no stop and no failed directory read
\* holds each matching non-directory entry that lies below the root through
\* directories not in the skip-list exactly once, and nothing else; its
\* length is the number N of such files.
C16_CompleteResults ==
    \A id \in SearchIds :
        CompletedUndisturbed(id) =>
            LET expected == MatchingFiles(ssession[id].directory,
                                          ssession[id].pattern)
            IN /\ Range(ssession[id].results) = expected
               /\ Len(ssession[id].results) = Cardinality(expected)

\* C16 witness: the search of the whole tree has completed with its three
\* matches (the file below node_modules and the .js file are not among
\* them).
C16_Witness ==
    \E id \in SearchIds :
        /\ CompletedUndisturbed(id)
        /\ ssession[id].directory = <<"p">>
        /\ ssession[id].scannedDirs = 3
        /\ Len(ssession[id].results) = 3
        /\ ~ssession[id].isRunning

\* C17: start creates a search session only for an existing directory: it
\* fails, and no session exists, for a path that does not exist and for a
\* path that exists but is not a directory.
C17_StartNeedsDirectory ==
    /\ \A id \in SearchIds : ssession[id].directory \in Directories
    /\ (last.op = "start_search" /\ last.res = "ok") =>
          /\ HasSearch(last.id)
          /\ ssession[last.id].directory \in Directories

\* C18, in every state: when a start has just returned, its session is in
\* the registry, running, with no result and no directory scanned, and its
\* traversal awaits the first listing.
C18_Inv ==
    (last.op = "start_search" /\ last.res = "ok") =>
        /\ HasSearch(last.id)
        /\ ssession[last.id].isRunning
        /\ ssession[last.id].results = <<>>
        /\ ssession[last.id].scannedDirs = 0
        /\ task[last.id].state = "reading"
        /\ task[last.id].pending = ssession[last.id].directory

\* C18, in every step: a session is created without results, and results
\* are appended to an existing session only by a step of its traversal,
\* never by a handler.
C18_Step ==
    \A id \in DOMAIN ssession' :
        IF id \in SearchIds
        THEN ssession'[id].results # ssession[id].results =>
                /\ last' = NoReply
                /\ task[id].state = "reading"
        ELSE /\ last'.op = "start_search"
             /\ last'.id = id
             /\ ssession'[id].results = <<>>

\* C18: a successful start returns without waiting for the traversal: at
\* its return the new session is registered with isRunning = true, no
\* results and scannedDirs = 0, and every result is appended by a later,
\* separate traversal step.
C18_StartDoesNotWait == []C18_Inv /\ [][C18_Step]_vars

\* C18 witness: a start on the root of the tree has just returned, nothing
\* found yet; the first match sits in that very directory.
C18_Witness ==
    /\ last.op = "start_search"
    /\ last.res = "ok"
    /\ ssession[last.id].directory = <<"p">>
    /\ ssession[last.id].results = <<>>
    /\ task[last.id].state = "reading"

\* The operations that take a process-session id, and those that take a
\* search id.
SessionOps == {"read", "write", "close"}
SearchOps == {"get_results", "stop", "clear"}

\* C19, in every step: an operation called with an id that is not in its
\* registry replies NotFound and changes nothing.
C19_Step ==
    /\ (last'.op \in SessionOps /\ ~HasSession(last'.id)) =>
          /\ last'.res = "NotFound"
          /\ UNCHANGED <<procVars, searchVars>>
    /\ (last'.op \in SearchOps /\ ~HasSearch(last'.id)) =>
          /\ last'.res = "NotFound"
          /\ UNCHANGED <<procVars, searchVars>>

\* C19: getResults, stop and clear of a search, and read, write and close
\* of a process session, called with an id that is not in the registry
\* concerned, return a NotFound error and change neither registry nor any
\* session; none of them silently does nothing.
C19_UnknownIdIsNotFound == [][C19_Step]_vars

\* C19 witness: close was refused for the id of a session that had been
\* closed before, while a search is registered.
C19_Witness ==
    /\ last.op = "close"
    /\ last.res = "NotFound"
    /\ last.id \in SessionIds
    /\ searchSessions # <<>>

\* C20, in every state: no id is in a registry twice and no id belongs to
\* both a process session and a search.
C20_Inv ==
    /\ NoDuplicates(processSessions)
    /\ NoDuplicates(searchSessions)
    /\ SessionIds \cap SearchIds = {}

\* C20, in every step: the id a start returns was returned by no earlier
\* start of either kind, whether or not that session is still registered.
C20_Step ==
    /\ (last'.op = "start" /\ last'.res = "ok"
        /\ sessionCounter' # sessionCounter) =>
          /\ last'.id \notin SessionIds \cup SearchIds
          /\ last'.id \in DOMAIN psession'
    /\ (last'.op = "start_search" /\ last'.res = "ok"
        /\ searchCounter' # searchCounter) =>
          /\ last'.id \notin SessionIds \cup SearchIds
          /\ last'.id \in DOMAIN ssession'

\* C20: session ids are never reused: over any sequence of start, clear and
\* close operations the id returned by a start differs from every id an
\* earlier start returned, removed sessions included, and a search id is
\* never a process-session id.
C20_IdsNeverReused == []C20_Inv /\ [][C20_Step]_vars

\* C20 witness: a second process session was started after the first one
\* had been closed, at the same clock value, with a search issued as well.
C20_Witness ==
    /\ last.op = "start"
    /\ last.res = "ok"
    /\ Cardinality(SessionIds) = 2
    /\ Len(processSessions) = 1
    /\ \E old \in SessionIds : ~HasSession(old) /\ old[3] = last.id[3]
    /\ SearchIds # {}

\* C22, in every state: list shows every registered search, ended ones
\* included, and getResults answers for every registered search.
C22_Inv ==
    /\ last.op = "list_searches" =>
          /\ Len(last.rows) = Len(searchSessions)
          /\ \A i \in 1 .. Len(searchSessions) :
                /\ last.rows[i].id = searchSessions[i]
                /\ last.rows[i].isRunning = ssession[searchSessions[i]].isRunning
    /\ (last.op = "get_results" /\ HasSearch(last.id)) => last.res = "ok"

\* C22, in every step: an id leaves the search registry only in a step of
\* clear; stop, the traversal and its completion, getResults and list leave
\* the registry as it is.
C22_Step ==
    /\ \A id \in SearchIds :
          (HasSearch(id) /\ id \notin Range(searchSessions')) =>
              last'.op \in {"clear", "clear_all"}
    /\ last'.op \in {"stop", "get_results", "list_searches", "event"} =>
          searchSessions' = searchSessions

\* C22: a search session leaves the registry only through clear: stop,
\* natural completion, getResults and list never remove an entry, so a
\* stopped or completed search stays listed and readable until cleared.
C22_OnlyClearRemoves == []C22_Inv /\ [][C22_Step]_vars

\* C22 witness: list shows a search that was stopped and one that ended by
\* itself, both still registered.
C22_Witness ==
    /\ last.op = "list_searches"
    /\ Len(last.rows) = 2
    /\ \A i \in 1 .. 2 : ~last.rows[i].isRunning
    /\ \E i \in 1 .. 2 : sghost[last.rows[i].id].stopped
    /\ \E i \in 1 .. 2 :
          /\ ~sghost[last.rows[i].id].stopped
          /\ task[last.rows[i].id].state = "done"

\* C25, in every step that handles close on a registered session: the
\* process is signalled exactly when isRunning is true, SIGTERM without
\* force and SIGKILL with it, and the entry is removed either way.
C25_Step ==
    \A id \in SessionIds :
        (last'.op = "close" /\ last'.id = id /\ HasSession(id)) =>
            /\ last'.res = "ok"
            /\ id \notin Range(processSessions')
            /\ proc'[id].signals =
                  IF psession[id].isRunning
                  THEN Append(proc[id].signals,
                              IF last'.arg THEN "SIGKILL" ELSE "SIGTERM")
                  ELSE proc[id].signals
            /\ \A other \in SessionIds \ {id} : proc'[other] = proc[other]

\* C25: close(id, force) signals the process only when isRunning is true,
\* with the graceful signal when force is false and the forceful one when
\* it is true; when isRunning is false no signal is sent and the entry is
\* removed all the same.
C25_CloseSignalsRunningOnly == [][C25_Step]_vars

\* C25 witness: a forced close of a session that had ended: removed, and
\* no signal was ever sent.
C25_Witness ==
    /\ last.op = "close"
    /\ last.res = "ok"
    /\ last.arg
    /\ ~psession[last.id].isRunning
    /\ proc[last.id].signals = <<>>
    /\ ~HasSession(last.id)

\* The names the traversal is to stay out of.
DenyList ==
    {"node_modules", ".git", "$RECYCLE.BIN", "System Volume Information",
     "Windows", "Program Files", "Program Files (x86)"}

\* path is root or lies below it through no denied name; with more = 1 the
\* last segment of path (a file name) is left out of the test.
ReachedProperly(root, path, more) ==
    \/ path = root
    \/ /\ IsUnder(root, path)
       /\ \A i \in (Len(root) + 1) .. (Len(path) - more) :
             path[i] \notin DenyList

\* C27: the traversal lists no subdirectory whose name is in the skip-list,
\* at any depth, and no result lies below one; the list applies to the
\* entries met, so the root given to start is listed whatever its name.
C27_SkipListHonoured ==
    \A id \in SearchIds :
        LET root == ssession[id].directory IN
        /\ task[id].state = "reading" =>
              ReachedProperly(root, task[id].pending, 0)
        /\ \A i \in 1 .. Len(task[id].stack) :
              ReachedProperly(root, task[id].stack[i].dir, 0)
        /\ \A r \in Range(ssession[id].results) :
              ReachedProperly(root, r, 1)
        /\ (last.op = "start_search" /\ last.res = "ok" /\ last.id = id) =>
              /\ task[id].state = "reading"
              /\ task[id].pending = root
        /\ (CompletedUndisturbed(id) /\ root = <<"p", "node_modules">>) =>
              ssession[id].results = <<<<"p", "node_modules", "e.ts">>>>

\* C27 witness: two completed searches: the one from the top found nothing
\* below node_modules, the one started on node_modules found the file in it.
C27_Witness ==
    \E top, inner \in SearchIds :
        /\ CompletedUndisturbed(top)
        /\ ssession[top].directory = <<"p">>
        /\ <<"p", "node_modules", "e.ts">> \notin Range(ssession[top].results)
        /\ Len(ssession[top].results) = 3
        /\ CompletedUndisturbed(inner)
        /\ ssession[inner].directory = <<"p", "node_modules">>
        /\ ssession[inner].results = <<<<"p", "node_modules", "e.ts">>>>

\* C28: once stop(id) has returned the traversal changes the session no
\* more: scannedDirs keeps the value it had at that moment, also when a
\* directory listing was in flight.
C28_StopFreezesCounter ==
    \A id \in SearchIds :
        sghost[id].stopped =>
            ssession[id].scannedDirs = sghost[id].scannedDirs

IsSuffix(s, t) ==
    Len(s) <= Len(t) /\ SubSeq(t, Len(t) - Len(s) + 1, Len(t)) = s

\* The stdout and stderr chunks of a transcript, in its order.
DataChunks(output) == SelectSeq(output, LAMBDA c : ~IsTerminal(c))

\* C23, in every state: the stdout and stderr chunks of a transcript carry
\* consecutive arrival numbers, in increasing order: none is missing from
\* the middle and none is out of order.
C23_Inv ==
    \A id \in SessionIds :
        LET data == DataChunks(psession[id].output) IN
        \A i \in 1 .. (Len(data) - 1) : data[i + 1].n = data[i].n + 1

\* C23, in every step: a transcript stays as it is, or is emptied by a
\* clearing read, or an event puts its chunk at the new end and chunks, if
\* any go, go from the old end.
C23_Step ==
    \A id \in SessionIds :
        LET old == psession[id].output
            new == psession'[id].output
        IN \/ new = old
           \/ /\ last'.op = "read" /\ last'.id = id /\ last'.arg
              /\ new = <<>>
           \/ /\ last' = NoReply
              /\ new # <<>>
              /\ IsSuffix(new, Append(old, new[Len(new)]))

\* C23: the transcript of a process session is at all times a contiguous
\* suffix, in arrival order, of the chunks appended since the last clearing
\* read (or since start): stdout, stderr and terminal entries stand in the
\* order their events were handled and eviction removes from the old end
\* only.
C23_TranscriptIsSuffix == []C23_Inv /\ [][C23_Step]_vars

\* C23 witness: the cap has dropped chunks, and the transcript that is left
\* holds a stderr chunk between stdout chunks and ends with the chunk that
\* arrived last.
C23_Witness ==
    \E id \in SessionIds :
        LET output == psession[id].output IN
        /\ ghost[id].evicted # <<>>
        /\ Len(output) >= 3
        /\ \E i \in 2 .. (Len(output) - 1) :
              /\ output[i] = StderrChunk(output[i].n)
              /\ output[i - 1] = StdoutChunk(output[i].n - 1)
              /\ output[i + 1] = StdoutChunk(output[i].n + 1)
        /\ output[Len(output)] = StdoutChunk(proc[id].emitted)

Parent(path) == SubSeq(path, 1, Len(path) - 1)

\* The sets of directories a walk from root can have listed: root first,
\* a directory only if the one above it was listed.
ListedSets(root) ==
    {L \in SUBSET WalkedDirectories(root) :
        \A d \in L : d = root \/ Parent(d) \in L}

\* The matching files that sit directly in a directory of L.
MatchesIn(L, root, regex) ==
    {f \in MatchingFiles(root, regex) : Parent(f) \in L}

\* C24, in every state: a search nobody stopped is, at its end, not
\* running and holds exactly the matches of the directories that were
\* listed, scannedDirs being their number; no reply about a registered
\* search is an error.
C24_Inv ==
    /\ \A id \in SearchIds :
          (task[id].state = "done" /\ ~sghost[id].stopped) =>
              /\ ~ssession[id].isRunning
              /\ \E L \in ListedSets(ssession[id].directory) :
                    LET found == MatchesIn(L, ssession[id].directory,
                                           ssession[id].pattern)
                    IN /\ ssession[id].scannedDirs = Cardinality(L)
                       /\ Range(ssession[id].results) = found
                       /\ Len(ssession[id].results) = Cardinality(found)
    /\ (last.op \in {"get_results", "stop"} /\ HasSearch(last.id)) =>
          last.res \in {"ok", "already"}
    /\ last.op = "list_searches" => last.res = "ok"

\* C24, in every step in which a listing fails (the traversal moves and
\* the directory is not counted): nothing below the failed directory is
\* among the results, and what was found before stays.
C24_Step ==
    \A id \in SearchIds :
        (task'[id] # task[id]
         /\ ssession'[id].scannedDirs = ssession[id].scannedDirs) =>
            /\ last' = NoReply
            /\ IsPrefix(ssession[id].results, ssession'[id].results)
            /\ \A r \in Range(ssession'[id].results) :
                  ~IsUnder(task[id].pending, r)

\* C24: a directory whose listing fails contributes no result and is not
\* counted, the traversal goes on with its remaining siblings, the session
\* still ends with isRunning = false and no operation reports an error;
\* scannedDirs at the end is the number of directories listed.
C24_FailedListingIsSkipped == []C24_Inv /\ [][C24_Step]_vars

\* C24 witness: the listing of q/sub failed; the search ended with the one
\* directory counted and with the file that follows sub in q.
C24_Witness ==
    \E id \in SearchIds :
        /\ ssession[id].directory = <<"q">>
        /\ task[id].state = "done"
        /\ ~sghost[id].stopped
        /\ ~ssession[id].isRunning
        /\ ssession[id].scannedDirs = 1
        /\ ssession[id].results = <<<<"q", "a.ts">>>>
        /\ last.op = "get_results"
        /\ last.id = id
        /\ last.res = "ok"

\* Two characters that are the same letter, whatever their case.
SameLetter(c, d) ==
    \/ c = d
    \/ {c, d} \in {{"a", "A"}, {"b", "B"}}

\* A whole name against a wildcard pattern: "*" is any run of characters,
\* "?" is any one character, another character is itself in either case.
RECURSIVE WildcardMatch(_, _)
WildcardMatch(pattern, name) ==
    IF pattern = <<>> THEN name = <<>>
    ELSE IF Head(pattern) = "*"
    THEN \/ WildcardMatch(Tail(pattern), name)
         \/ name # <<>> /\ WildcardMatch(pattern, Tail(name))
    ELSE IF Head(pattern) = "?"
    THEN name # <<>> /\ WildcardMatch(Tail(pattern), Tail(name))
    ELSE /\ name # <<>>
         /\ SameLetter(Head(pattern), Head(name))
         /\ WildcardMatch(Tail(pattern), Tail(name))

\* C26: the compiled matcher accepts a base name exactly when the whole
\* name matches the wildcard pattern, "*" standing for zero or more
\* arbitrary characters, "?" for exactly one arbitrary character and every
\* other character for itself in either case.
C26_MatcherIsWildcard ==
    last.op = "test" => (last.arg <=> WildcardMatch(last.text, last.out))

\* C29, in every state: isRunning is false exactly when the 'close' or the
\* 'error' event of the process has been handled.
C29_Inv ==
    \A id \in SessionIds :
        psession[id].isRunning <=> ~(proc[id].closed \/ proc[id].errored)

\* C29, in every write to a registered session: the write is acknowledged
\* and reaches stdin exactly when isRunning is set, whether or not the
\* process is alive, and fails with SessionEnded otherwise, writing nothing.
C29_Step ==
    \A id \in SessionIds :
        (last'.op = "write" /\ last'.id = id /\ HasSession(id)) =>
            IF psession[id].isRunning
            THEN /\ last'.res = "ok"
                 /\ Len(proc'[id].stdin) = Len(proc[id].stdin) + 1
            ELSE /\ last'.res = "SessionEnded"
                 /\ proc'[id] = proc[id]

\* C29: write decides on the isRunning flag only. While the process has
\* ended but its event is not handled yet, write is still acknowledged;
\* only after the event was handled does it fail with SessionEnded.
C29_WriteDecidesOnFlag == []C29_Inv /\ [][C29_Step]_vars

\* C29 witness: a write was acknowledged for a process that had already
\* ended.
C29_Witness ==
    /\ last.op = "write"
    /\ last.res = "ok"
    /\ last.id \in SessionIds
    /\ ~proc[last.id].alive
    /\ ~proc[last.id].closed
    /\ psession[last.id].isRunning

\* C21, in every step: a session that was created and is not in its
\* registry is not in it afterwards either, and a background event (data,
\* exit, close, error, a traversal step or its completion) leaves both
\* registries as they are.
C21_Step ==
    /\ \A id \in SessionIds : ~HasSession(id) => ~HasSession(id)'
    /\ \A id \in SearchIds : ~HasSearch(id) => ~HasSearch(id)'
    /\ last' = NoReply => UNCHANGED <<processSessions, searchSessions>>

\* C21: an entry, once removed, is never in its registry again; the
\* background events that arrive for it afterwards neither re-insert it
\* nor change the registry's ids.
C21_RemovedStaysRemoved == [][C21_Step]_vars

\* C21 witness: a process session was closed while running and its
\* 'close' event arrived afterwards, and a search was cleared with a
\* listing of its traversal still outstanding.
C21_Witness ==
    /\ \E id \in SessionIds :
          /\ ~HasSession(id)
          /\ proc[id].signals # <<>>
          /\ proc[id].closed
          /\ ~proc[id].errored
    /\ \E id \in SearchIds :
          /\ ~HasSearch(id)
          /\ task[id].state = "reading"
    /\ last = NoReply

\* The sessions whose state a step changes, over both registries.
Touched ==
    {id \in SessionIds : psession'[id] # psession[id] \/ proc'[id] # proc[id]}
    \cup
    {id \in SearchIds : ssession'[id] # ssession[id] \/ task'[id] # task[id]}

\* C30, in every step: at most one session changes; an operation on an
\* id changes no session but that one and leaves the other entries of both
\* registries in place; an event changes no registry; and no step changes
\* both the process side and the search side.
C30_Step ==
    /\ Cardinality(Touched) <= 1
    /\ \A id \in SessionIds \cup SearchIds :
          (last'.op \in {"stop", "clear", "read", "write", "close"}
           /\ last'.id = id) =>
              /\ Touched \subseteq {id}
              /\ Without(processSessions', id) = Without(processSessions, id)
              /\ Without(searchSessions', id) = Without(searchSessions, id)
    /\ last' = NoReply => UNCHANGED <<processSessions, searchSessions>>
    /\ last'.op \in {"start", "start_search"} => Touched = {}
    /\ procVars' # procVars => searchVars' = searchVars
    /\ searchVars' # searchVars => procVars' = procVars

\* C30: sessions are independent. An operation on one id and an event of
\* one session leave every other session of both registries unchanged, and
\* the two registries never affect each other.
C30_SessionsIndependent == [][C30_Step]_vars

\* C30 witness: of two process sessions one was closed while running and
\* has ended, and the other is still registered and running with the
\* output and the input it received.
C30_Witness ==
    \E a, b \in SessionIds :
        /\ ~HasSession(a)
        /\ proc[a].closed
        /\ proc[a].signals # <<>>
        /\ HasSession(b)
        /\ psession[b].isRunning
        /\ psession[b].output # <<>>
        /\ proc[b].stdin # <<>>

====
